---- MODULE Spec2Model ----
(***************************************************************************)
(* A model of particle_sim.py: the Particle primitives (move,              *)
(* check_collision, resolve_collision), the grid (get_cell), the           *)
(* simulation thread (simulate), the speed exporter (get_speeds) and the   *)
(* renderer loop of main, which share the particle list and one lock.      *)
(*                                                                         *)
(* Python floats are modelled as exact rationals <<n, d>> (d > 0, lowest   *)
(* terms).  math.hypot is exact only where the sum of squares is a perfect *)
(* square; the initial configurations are chosen so that every call of     *)
(* resolve_collision has such a distance (TLC stops with an error          *)
(* otherwise), and check_collision compares squares.                       *)
(***************************************************************************)
EXTENDS Integers, Sequences, FiniteSets, TLC

VARIABLES particles, lock, bounces, total_momentum_transfer, t,
          sim_pc, sim_i, grid, checked, last_move, last_report,
          speeds_pc, speeds_i, speeds_file, main_pc,
          pre, call

vars == <<particles, lock, bounces, total_momentum_transfer, t,
          sim_pc, sim_i, grid, checked, last_move, last_report,
          speeds_pc, speeds_i, speeds_file, main_pc,
          pre, call>>

(***************************************************************************)
(* Program constants (particle_sim.py lines 8-16).                         *)
(***************************************************************************)
SCREEN_WIDTH == 900
SCREEN_HEIGHT == 900
SIMULATION_RATE == 100
GRID_SIZE == 10
Target_Temp == 300
\* the particle mass of line 15, in units of 4.65e-26 kg
mass == 1

(***************************************************************************)
(* Bounds of the model.                                                    *)
(***************************************************************************)
\* the simulation thread starts no tick once t has reached MaxTick
MaxTick == 200
\* GridSpec places the second particle at integer offsets -MaxCoord..MaxCoord
MaxCoord == 11
\* MoveSpec calls move at most MaxCalls times
MaxCalls == 3
\* ResolveSpec's axis offsets are 1/2 .. MaxHalves/2
MaxHalves == 5

(***************************************************************************)
(* Exact rational arithmetic standing for Python's float arithmetic.       *)
(***************************************************************************)
Abs(n) == IF n < 0 THEN -n ELSE n

RECURSIVE GCD(_, _)
GCD(a, b) == IF b = 0 THEN a ELSE GCD(b, a % b)

Rat(n, d) ==
    LET s == IF d < 0 THEN -1 ELSE 1
        g == GCD(Abs(n), Abs(d))
    IN  <<(s * n) \div g, (s * d) \div g>>

R(n) == <<n, 1>>
RAdd(p, q) == Rat(p[1] * q[2] + q[1] * p[2], p[2] * q[2])
RSub(p, q) == Rat(p[1] * q[2] - q[1] * p[2], p[2] * q[2])
RMul(p, q) == Rat(p[1] * q[1], p[2] * q[2])
RDiv(p, q) == Rat(p[1] * q[2], p[2] * q[1])
RNeg(p) == <<-p[1], p[2]>>
RAbs(p) == <<Abs(p[1]), p[2]>>
RLt(p, q) == p[1] * q[2] < q[1] * p[2]
RLe(p, q) == p[1] * q[2] <= q[1] * p[2]
RMax(p, q) == IF RLt(p, q) THEN q ELSE p
RMin(p, q) == IF RLt(q, p) THEN q ELSE p
\* int(x // g) for an integer g > 0
RFloorDiv(p, g) == p[1] \div (p[2] * g)

\* the exact square root of a perfect square
ISqrt(n) == CHOOSE s \in 0..n : s * s = n
RSqrt(q) == <<ISqrt(q[1]), ISqrt(q[2])>>

(***************************************************************************)
(* class Particle                                                          *)
(***************************************************************************)
Particle(mass_, x, y, velocity_x, velocity_y, radius) ==
    [m |-> mass_, x |-> x, y |-> y, v_x |-> velocity_x, v_y |-> velocity_y,
     r |-> radius]

\* move with the two clamping assignments (lines 36 and 40) left out
move_noclamp(self, dt) ==
    LET x1 == RAdd(self.x, RMul(self.v_x, dt))
        y1 == RAdd(self.y, RMul(self.v_y, dt))
        hit_x == RLt(RSub(x1, self.r), R(0))
                 \/ RLt(R(SCREEN_WIDTH), RAdd(x1, self.r))
        hit_y == RLt(RSub(y1, self.r), R(0))
                 \/ RLt(R(SCREEN_HEIGHT), RAdd(y1, self.r))
    IN  [p |-> [self EXCEPT !.x = x1, !.y = y1,
                            !.v_x = IF hit_x THEN RNeg(@) ELSE @,
                            !.v_y = IF hit_y THEN RNeg(@) ELSE @],
         wall_bounce |-> (IF hit_x THEN 1 ELSE 0) + (IF hit_y THEN 1 ELSE 0),
         bounced_x |-> hit_x,
         bounced_y |-> hit_y]

\* Particle.move: the particle after the call, the value returned, and which
\* of the two wall branches ran.
move(self, dt) ==
    LET x1 == RAdd(self.x, RMul(self.v_x, dt))
        y1 == RAdd(self.y, RMul(self.v_y, dt))
        hit_x == RLt(RSub(x1, self.r), R(0))
                 \/ RLt(R(SCREEN_WIDTH), RAdd(x1, self.r))
        hit_y == RLt(RSub(y1, self.r), R(0))
                 \/ RLt(R(SCREEN_HEIGHT), RAdd(y1, self.r))
        x2 == IF hit_x
              THEN RMax(self.r, RMin(RSub(R(SCREEN_WIDTH), self.r), x1))
              ELSE x1
        y2 == IF hit_y
              THEN RMax(self.r, RMin(RSub(R(SCREEN_HEIGHT), self.r), y1))
              ELSE y1
    IN  [p |-> [self EXCEPT !.x = x2, !.y = y2,
                            !.v_x = IF hit_x THEN RNeg(@) ELSE @,
                            !.v_y = IF hit_y THEN RNeg(@) ELSE @],
         wall_bounce |-> (IF hit_x THEN 1 ELSE 0) + (IF hit_y THEN 1 ELSE 0),
         bounced_x |-> hit_x,
         bounced_y |-> hit_y]

\* math.hypot(dx, dy), carried as its square
hypot_sq(dx, dy) == RAdd(RMul(dx, dx), RMul(dy, dy))

\* Particle.check_collision: dist < self.r + other.r, both sides squared
\* (dist >= 0, and the comparison is false when the radii sum is negative)
check_collision(self, other) ==
    LET dx == RSub(other.x, self.x)
        dy == RSub(other.y, self.y)
        rr == RAdd(self.r, other.r)
    IN  RLt(R(0), rr) /\ RLt(hypot_sq(dx, dy), RMul(rr, rr))

\* resolve_collision with other's velocity change divided by self.m
resolve_collision_selfmass(self, other) ==
    LET dx == RSub(other.x, self.x)
        dy == RSub(other.y, self.y)
        d2 == hypot_sq(dx, dy)
    IN  IF d2 = R(0) THEN <<self, other>>
        ELSE
        LET dist == RSqrt(d2)
            nx == RDiv(dx, dist)
            ny == RDiv(dy, dist)
            dvx == RSub(self.v_x, other.v_x)
            dvy == RSub(self.v_y, other.v_y)
            dot == RAdd(RMul(dvx, nx), RMul(dvy, ny))
        IN  IF RLt(R(0), dot) THEN <<self, other>>
            ELSE
            LET impulse == RDiv(RMul(R(-2), dot),
                                RAdd(RDiv(R(1), self.m), RDiv(R(1), other.m)))
                impulse_x == RMul(impulse, nx)
                impulse_y == RMul(impulse, ny)
                overlap == RMul(<<1, 2>>,
                                RAdd(RSub(RAdd(self.r, other.r), dist), R(1)))
            IN  <<[self EXCEPT
                     !.v_x = RAdd(@, RDiv(impulse_x, self.m)),
                     !.v_y = RAdd(@, RDiv(impulse_y, self.m)),
                     !.x = RSub(@, RMul(nx, overlap)),
                     !.y = RSub(@, RMul(ny, overlap))],
                  [other EXCEPT
                     !.v_x = RSub(@, RDiv(impulse_x, self.m)),
                     !.v_y = RSub(@, RDiv(impulse_y, self.m)),
                     !.x = RAdd(@, RMul(nx, overlap)),
                     !.y = RAdd(@, RMul(ny, overlap))]>>

\* Particle.resolve_collision: the pair <<self, other>> after the call
resolve_collision(self, other) ==
    LET dx == RSub(other.x, self.x)
        dy == RSub(other.y, self.y)
        d2 == hypot_sq(dx, dy)
    IN  IF d2 = R(0) THEN <<self, other>>
        ELSE
        LET dist == RSqrt(d2)
            nx == RDiv(dx, dist)
            ny == RDiv(dy, dist)
            dvx == RSub(self.v_x, other.v_x)
            dvy == RSub(self.v_y, other.v_y)
            dot == RAdd(RMul(dvx, nx), RMul(dvy, ny))
        IN  IF RLt(R(0), dot) THEN <<self, other>>
            ELSE
            LET restitution == R(1)
                impulse == RDiv(RMul(RNeg(RAdd(R(1), restitution)), dot),
                                RAdd(RDiv(R(1), self.m), RDiv(R(1), other.m)))
                impulse_x == RMul(impulse, nx)
                impulse_y == RMul(impulse, ny)
                overlap == RMul(<<1, 2>>,
                                RAdd(RSub(RAdd(self.r, other.r), dist), R(1)))
            IN  <<[self EXCEPT
                     !.v_x = RAdd(@, RDiv(impulse_x, self.m)),
                     !.v_y = RAdd(@, RDiv(impulse_y, self.m)),
                     !.x = RSub(@, RMul(nx, overlap)),
                     !.y = RSub(@, RMul(ny, overlap))],
                  [other EXCEPT
                     !.v_x = RSub(@, RDiv(impulse_x, other.m)),
                     !.v_y = RSub(@, RDiv(impulse_y, other.m)),
                     !.x = RAdd(@, RMul(nx, overlap)),
                     !.y = RAdd(@, RMul(ny, overlap))]>>

\* get_cell with cells of half the size
get_cell_halfsize(x, y) ==
    <<RFloorDiv(x, GRID_SIZE \div 2), RFloorDiv(y, GRID_SIZE \div 2)>>

\* get_cell
get_cell(x, y) == <<RFloorDiv(x, GRID_SIZE), RFloorDiv(y, GRID_SIZE)>>

(***************************************************************************)
(* The spatial grid of simulate: a dict in insertion order, here a         *)
(* sequence of [cell, members], members being indices into particles.      *)
(***************************************************************************)
grid_setdefault_append(g, cell, i) ==
    IF \E k \in 1..Len(g) : g[k].cell = cell
    THEN [k \in 1..Len(g) |->
            IF g[k].cell = cell
            THEN [g[k] EXCEPT !.members = Append(@, i)]
            ELSE g[k]]
    ELSE Append(g, [cell |-> cell, members |-> <<i>>])

RECURSIVE build_grid(_, _, _)
build_grid(ps, i, g) ==
    IF i > Len(ps) THEN g
    ELSE build_grid(ps, i + 1,
                    grid_setdefault_append(g, get_cell(ps[i].x, ps[i].y), i))

\* grid.get(cell, [])
grid_get(g, cell) ==
    IF \E k \in 1..Len(g) : g[k].cell = cell
    THEN g[CHOOSE k \in 1..Len(g) : g[k].cell = cell].members
    ELSE <<>>

\* the neighbours list of a cell, in the order of the comprehension
neighbors(cell) ==
    [k \in 1..9 |-> <<cell[1] + ((k - 1) \div 3) - 1,
                      cell[2] + ((k - 1) % 3) - 1>>]

RECURSIVE Flatten(_)
Flatten(ss) == IF ss = <<>> THEN <<>> ELSE Head(ss) \o Flatten(Tail(ss))

\* the pairs <<a, b>> the three inner loops reach, in their order
candidates(g) ==
    Flatten([k \in 1..Len(g) |->
      Flatten([ai \in 1..Len(g[k].members) |->
        Flatten([n \in 1..9 |->
          LET bs == grid_get(g, neighbors(g[k].cell)[n])
          IN  [bi \in 1..Len(bs) |-> <<g[k].members[ai], bs[bi]>>]])])])

\* the skip test without its (id(b), id(a)) disjunct
skip_pair_oneorder(a, b, visited) ==
    a = b \/ <<a, b>> \in visited

\* the test that skips a pair
skip_pair(a, b, visited) ==
    a = b \/ <<a, b>> \in visited \/ <<b, a>> \in visited

\* the body of the innermost loop, run over the candidates from the k-th on;
\* st = [ps, visited, checked], checked being the pairs check_collision was
\* called on
RECURSIVE collision_pass(_, _, _)
collision_pass(cands, k, st) ==
    IF k > Len(cands) THEN st
    ELSE
    LET a == cands[k][1]
        b == cands[k][2]
    IN  IF skip_pair(a, b, st.visited)
        THEN collision_pass(cands, k + 1, st)
        ELSE
        LET hit == check_collision(st.ps[a], st.ps[b])
            res == resolve_collision(st.ps[a], st.ps[b])
            ps1 == IF hit
                   THEN [st.ps EXCEPT ![a] = res[1], ![b] = res[2]]
                   ELSE st.ps
        IN  collision_pass(cands, k + 1,
              [ps |-> ps1,
               visited |-> st.visited \cup {<<a, b>>},
               checked |-> Append(st.checked,
                                  [a |-> a, b |-> b, hit |-> hit])])

(***************************************************************************)
(* simulate                                                                *)
(***************************************************************************)
\* dt of line 104
sim_dt == <<1, SIMULATION_RATE>>
perimeter == 2 * (SCREEN_WIDTH + SCREEN_HEIGHT)

\* total_momentum_transfer after the accounting of lines 118-122 for a
\* particle p that move has just returned wall_bounce for
momentum_after(total, p, old_vx, old_vy, wall_bounce) ==
    LET touch_x == RLe(RSub(p.x, p.r), R(0))
                   \/ RLe(R(SCREEN_WIDTH), RAdd(p.x, p.r))
        touch_y == RLe(RSub(p.y, p.r), R(0))
                   \/ RLe(R(SCREEN_HEIGHT), RAdd(p.y, p.r))
        t1 == IF wall_bounce # 0 /\ touch_x
              THEN RAdd(total, RMul(RMul(R(2), p.m), RAbs(old_vx)))
              ELSE total
    IN  IF wall_bounce # 0 /\ touch_y
        THEN RAdd(t1, RMul(RMul(R(2), p.m), RAbs(old_vy)))
        ELSE t1

\* ideal_pressure of line 154 divided by k_B (1.38e-23 > 0): zero exactly
\* when ideal_pressure is
ideal_pressure_over_kB(n) == Rat(n * Target_Temp, 900 * 900)

\* the reporting test taken one tick late
report_due_late(tick) == tick % SIMULATION_RATE = 1

\* the test of line 150
report_due(tick) == tick % SIMULATION_RATE = 0

NoMove == [i |-> 0]
NoReport == [t |-> 0]

SimAcquire ==
    /\ sim_pc = "acquire"
    /\ t < MaxTick
    /\ lock = "free"
    /\ lock' = "sim"
    /\ sim_pc' = "move"
    /\ sim_i' = 1
    /\ UNCHANGED <<particles, bounces, total_momentum_transfer, t, grid,
                   checked, last_move, last_report, speeds_pc, speeds_i,
                   speeds_file, main_pc, pre, call>>

\* one iteration of the loop of lines 112-124
SimMove ==
    /\ sim_pc = "move"
    /\ sim_i <= Len(particles)
    /\ LET p == particles[sim_i]
           old_vx == p.v_x
           old_vy == p.v_y
           res == move(p, sim_dt)
           total1 == momentum_after(total_momentum_transfer, res.p,
                                    old_vx, old_vy, res.wall_bounce)
       IN  /\ particles' = [particles EXCEPT ![sim_i] = res.p]
           /\ total_momentum_transfer' = total1
           /\ bounces' = bounces + res.wall_bounce
           /\ last_move' = [i |-> sim_i, m |-> p.m,
                            old_vx |-> old_vx, old_vy |-> old_vy,
                            bounced_x |-> res.bounced_x,
                            bounced_y |-> res.bounced_y,
                            d_momentum |-> RSub(total1, total_momentum_transfer),
                            d_bounces |-> res.wall_bounce]
    /\ sim_i' = sim_i + 1
    /\ UNCHANGED <<lock, t, sim_pc, grid, checked, last_report, speeds_pc,
                   speeds_i, speeds_file, main_pc, pre, call>>

\* lines 127-130
SimBuildGrid ==
    /\ sim_pc = "move"
    /\ sim_i > Len(particles)
    /\ grid' = build_grid(particles, 1, <<>>)
    /\ sim_pc' = "collide"
    /\ last_move' = NoMove
    /\ UNCHANGED <<particles, lock, bounces, total_momentum_transfer, t,
                   sim_i, checked, last_report, speeds_pc, speeds_i,
                   speeds_file, main_pc, pre, call>>

\* lines 132-146, and the end of the with block
SimCollide ==
    /\ sim_pc = "collide"
    /\ LET st == collision_pass(candidates(grid), 1,
                   [ps |-> particles, visited |-> {}, checked |-> <<>>])
       IN  /\ particles' = st.ps
           /\ checked' = st.checked
    /\ pre' = particles
    /\ lock' = "free"
    /\ sim_pc' = "report"
    /\ UNCHANGED <<bounces, total_momentum_transfer, t, sim_i, grid,
                   last_move, last_report, speeds_pc, speeds_i, speeds_file,
                   main_pc, call>>

\* lines 149-158; the division of line 155 raises ZeroDivisionError when
\* ideal_pressure is 0, which ends the thread
SimReport ==
    /\ sim_pc = "report"
    /\ t' = t + 1
    /\ IF report_due(t')
       THEN IF ideal_pressure_over_kB(Len(particles)) = R(0)
            THEN /\ sim_pc' = "crashed"
                 /\ UNCHANGED <<bounces, total_momentum_transfer, last_report>>
            ELSE /\ last_report' =
                      [t |-> t', bounces |-> bounces,
                       pressure |-> RDiv(total_momentum_transfer, R(perimeter))]
                 /\ bounces' = 0
                 /\ total_momentum_transfer' = R(0)
                 /\ sim_pc' = "sleep"
       ELSE /\ sim_pc' = "sleep"
            /\ UNCHANGED <<bounces, total_momentum_transfer, last_report>>
    /\ UNCHANGED <<particles, lock, sim_i, grid, checked, last_move,
                   speeds_pc, speeds_i, speeds_file, main_pc, pre, call>>

\* line 163
SimSleep ==
    /\ sim_pc = "sleep"
    /\ sim_pc' = "acquire"
    /\ UNCHANGED <<particles, lock, bounces, total_momentum_transfer, t,
                   sim_i, grid, checked, last_move, last_report, speeds_pc,
                   speeds_i, speeds_file, main_pc, pre, call>>

(***************************************************************************)
(* get_speeds: the lock is never taken.  A line of the file holds the      *)
(* square of the speed written.                                            *)
(***************************************************************************)
speed_sq(p) == RAdd(RMul(p.v_x, p.v_x), RMul(p.v_y, p.v_y))

SpeedsOpen ==
    /\ speeds_pc = "open"
    /\ speeds_file' = <<>>
    /\ speeds_i' = 1
    /\ speeds_pc' = "write"
    /\ UNCHANGED <<particles, lock, bounces, total_momentum_transfer, t,
                   sim_pc, sim_i, grid, checked, last_move, last_report,
                   main_pc, pre, call>>

SpeedsWrite ==
    /\ speeds_pc = "write"
    /\ speeds_i <= Len(particles)
    /\ speeds_file' = Append(speeds_file, speed_sq(particles[speeds_i]))
    /\ speeds_i' = speeds_i + 1
    /\ UNCHANGED <<particles, lock, bounces, total_momentum_transfer, t,
                   sim_pc, sim_i, grid, checked, last_move, last_report,
                   speeds_pc, main_pc, pre, call>>

SpeedsSleep ==
    /\ speeds_pc = "write"
    /\ speeds_i > Len(particles)
    /\ speeds_pc' = "open"
    /\ UNCHANGED <<particles, lock, bounces, total_momentum_transfer, t,
                   sim_pc, sim_i, grid, checked, last_move, last_report,
                   speeds_i, speeds_file, main_pc, pre, call>>

(***************************************************************************)
(* The drawing loop of main (lines 205-216), while the window stays open.  *)
(***************************************************************************)
MainAcquire ==
    /\ main_pc = "events"
    /\ lock = "free"
    /\ lock' = "main"
    /\ main_pc' = "draw"
    /\ UNCHANGED <<particles, bounces, total_momentum_transfer, t, sim_pc,
                   sim_i, grid, checked, last_move, last_report, speeds_pc,
                   speeds_i, speeds_file, pre, call>>

MainDraw ==
    /\ main_pc = "draw"
    /\ lock' = "free"
    /\ main_pc' = "events"
    /\ UNCHANGED <<particles, bounces, total_momentum_transfer, t, sim_pc,
                   sim_i, grid, checked, last_move, last_report, speeds_pc,
                   speeds_i, speeds_file, pre, call>>

(***************************************************************************)
(* Initial particle lists: mass and radius as main creates them, positions *)
(* inside [10, 890], no two overlapping.                                   *)
(***************************************************************************)
Pt(x, y, v_x, v_y) == Particle(R(mass), x, y, R(v_x), R(v_y), R(1))

Empty == <<>>
\* reaches x = r exactly in the tick in which it bounces on the y axis
Corner == <<Pt(R(12), <<23, 2>>, -100, -100)>>
FarCorner == <<Pt(R(888), R(889), 900, 600)>>
\* two particles of one row moving head-on
HeadOn == <<Pt(R(10), R(15), 100, 0), Pt(R(13), R(15), -100, 0)>>
AcrossCells == <<Pt(R(17), R(15), 100, 0), Pt(R(22), R(15), -100, 0)>>
\* they meet with equal centres
Coincide == <<Pt(R(10), R(15), 200, 0), Pt(R(13), R(15), -100, 0)>>
\* one row falling to the lower wall
Falling == <<Pt(R(10), R(12), 100, -100), Pt(R(13), R(12), -100, -100)>>
\* two rows ten apart
TwoRows == <<Pt(R(15), R(15), 100, 0), Pt(R(22), R(25), -100, 0),
             Pt(R(36), R(15), -200, 0)>>

\* the first is pushed out of the cell it was bucketed in
CrossPush == <<Pt(R(23), R(15), -100, 0), Pt(R(18), R(15), 100, 0),
               Pt(R(10), R(15), -100, 0)>>

Configs == {Empty, Corner, FarCorner, HeadOn, AcrossCells, Coincide,
            Falling, TwoRows, CrossPush}

InitWith(cfgs) ==
    /\ particles \in cfgs
    /\ lock = "free"
    /\ bounces = 0
    /\ total_momentum_transfer = R(0)
    /\ t = 0
    /\ sim_pc = "acquire"
    /\ sim_i = 1
    /\ grid = <<>>
    /\ checked = <<>>
    /\ last_move = NoMove
    /\ last_report = NoReport
    /\ speeds_pc = "open"
    /\ speeds_i = 1
    /\ speeds_file = <<>>
    /\ main_pc = "events"
    /\ pre = <<>>
    /\ call = "none"

Init == InitWith(Configs)

Next ==
    \/ SimAcquire
    \/ SimMove
    \/ SimBuildGrid
    \/ SimCollide
    \/ SimReport
    \/ SimSleep
    \/ SpeedsOpen
    \/ SpeedsWrite
    \/ SpeedsSleep
    \/ MainAcquire
    \/ MainDraw

Spec == Init /\ [][Next]_vars

(***************************************************************************)
(* Particle.move called any number of times on one particle.               *)
(***************************************************************************)
MoveXs == {R(-5), R(0), R(1), R(2), R(450), <<1797, 2>>, R(899), R(900),
           R(905)}
MoveYs == {R(-5), R(1), R(450), R(899), R(905)}
MoveVs == {R(-300), R(0), R(250)}
MoveRs == {R(1), R(450), R(451)}
MoveDts == {<<1, 100>>, R(1), R(4)}

Idle ==
    /\ lock = "free"
    /\ bounces = 0
    /\ total_momentum_transfer = R(0)
    /\ sim_pc = "acquire"
    /\ sim_i = 1
    /\ checked = <<>>
    /\ last_move = NoMove
    /\ last_report = NoReport
    /\ speeds_pc = "open"
    /\ speeds_i = 1
    /\ speeds_file = <<>>
    /\ main_pc = "events"

MoveInit ==
    /\ particles \in {<<Particle(R(1), x, y, vx, vy, r)>> :
                        x \in MoveXs, y \in MoveYs, vx \in MoveVs,
                        vy \in MoveVs, r \in MoveRs}
    /\ t = 0
    /\ grid = <<>>
    /\ pre = <<>>
    /\ call = "none"
    /\ Idle

MoveCall ==
    /\ t < MaxCalls
    /\ \E d \in MoveDts :
         particles' = <<move(particles[1], d).p>>
    /\ pre' = particles
    /\ call' = "move"
    /\ t' = t + 1
    /\ UNCHANGED <<lock, bounces, total_momentum_transfer, sim_pc, sim_i,
                   grid, checked, last_move, last_report, speeds_pc,
                   speeds_i, speeds_file, main_pc>>

MoveSpec == MoveInit /\ [][MoveCall]_vars

(***************************************************************************)
(* a.resolve_collision(b) called once on a pair whose centre distance is   *)
(* rational.                                                               *)
(***************************************************************************)
Signs == {-1, 1}
ExactOffsets ==
    {<<R(0), R(0)>>}
    \cup {<<Rat(s * n, 2), R(0)>> : s \in Signs, n \in 1..MaxHalves}
    \cup {<<R(0), Rat(s * n, 2)>> : s \in Signs, n \in 1..MaxHalves}
    \cup {<<Rat(s1 * 3, k), Rat(s2 * 4, k)>> :
            s1 \in Signs, s2 \in Signs, k \in {1, 5}}
    \cup {<<Rat(s1 * 4, k), Rat(s2 * 3, k)>> :
            s1 \in Signs, s2 \in Signs, k \in {1, 5}}
UnitVs == {<<R(vx), R(vy)>> : vx \in {-1, 0, 1}, vy \in {-1, 0, 1}}
MassPairs == {<<R(1), R(1)>>, <<R(1), R(2)>>, <<R(3), R(1)>>}
RadiusPairs == {<<R(1), R(1)>>, <<R(1), R(3)>>, <<R(3), R(3)>>}

ResolveInit ==
    /\ particles \in
         {<<Particle(ms[1], R(5), R(5), va[1], va[2], rs[1]),
            Particle(ms[2], RAdd(R(5), o[1]), RAdd(R(5), o[2]),
                     vb[1], vb[2], rs[2])>> :
            o \in ExactOffsets, va \in UnitVs, vb \in UnitVs,
            ms \in MassPairs, rs \in RadiusPairs}
    /\ t = 0
    /\ grid = <<>>
    /\ pre = <<>>
    /\ call = "none"
    /\ Idle

ResolveCall ==
    /\ call = "none"
    /\ particles' = resolve_collision(particles[1], particles[2])
    /\ pre' = particles
    /\ call' = "resolve_collision"
    /\ UNCHANGED <<lock, bounces, total_momentum_transfer, t, sim_pc, sim_i,
                   grid, checked, last_move, last_report, speeds_pc,
                   speeds_i, speeds_file, main_pc>>

ResolveSpec == ResolveInit /\ [][ResolveCall]_vars

(***************************************************************************)
(* One grid build over two particles.                                      *)
(***************************************************************************)
GridAnchors == {R(-1), R(0), R(9), <<19, 2>>, R(10), R(15)}
GridRadii == {R(1), R(5), R(6)}

GridInit ==
    /\ particles \in
         {<<Particle(R(1), ax, ay, R(0), R(0), ra),
            Particle(R(1), RAdd(ax, R(dx)), RAdd(ay, R(dy)), R(0), R(0), rb)>> :
            ax \in GridAnchors, ay \in {R(0), R(9), <<19, 2>>},
            dx \in -MaxCoord..MaxCoord, dy \in -MaxCoord..MaxCoord,
            ra \in GridRadii, rb \in GridRadii}
    /\ t = 0
    /\ grid = <<>>
    /\ pre = <<>>
    /\ call = "none"
    /\ Idle

GridBuild ==
    /\ call = "none"
    /\ grid' = build_grid(particles, 1, <<>>)
    /\ call' = "build_grid"
    /\ UNCHANGED <<particles, lock, bounces, total_momentum_transfer, t,
                   sim_pc, sim_i, checked, last_move, last_report, speeds_pc,
                   speeds_i, speeds_file, main_pc, pre>>

GridSpec == GridInit /\ [][GridBuild]_vars

(***************************************************************************)
(* Properties of resolve_collision (ResolveSpec).                          *)
(***************************************************************************)
Called == call = "resolve_collision"
Overlapping(ps) == check_collision(ps[1], ps[2])
DistinctCentres(ps) == ps[1].x # ps[2].x \/ ps[1].y # ps[2].y
\* the derivative of the squared centre distance, halved
SeparationRate(ps) ==
    RAdd(RMul(RSub(ps[2].x, ps[1].x), RSub(ps[2].v_x, ps[1].v_x)),
         RMul(RSub(ps[2].y, ps[1].y), RSub(ps[2].v_y, ps[1].v_y)))
SameVelocities(ps, qs) ==
    \A i \in 1..2 : ps[i].v_x = qs[i].v_x /\ ps[i].v_y = qs[i].v_y
Momentum(ps) ==
    <<RAdd(RMul(ps[1].m, ps[1].v_x), RMul(ps[2].m, ps[2].v_x)),
      RAdd(RMul(ps[1].m, ps[1].v_y), RMul(ps[2].m, ps[2].v_y))>>
HeadOnPair(ps) ==
    /\ ps[1].m = R(1) /\ ps[2].m = R(1)
    /\ ps[1].r = R(1) /\ ps[2].r = R(1)
    /\ ps[1].y = ps[2].y
    /\ RLt(ps[1].x, ps[2].x)
    /\ RLt(RSub(ps[2].x, ps[1].x), R(2))
    /\ ps[1].v_x = R(1) /\ ps[1].v_y = R(0)
    /\ ps[2].v_x = R(-1) /\ ps[2].v_y = R(0)

\* C1: two particles of mass 1 and radius 1 overlapping on the x axis, the
\* left one moving right at 1 and the right one moving left at 1, leave
\* a.resolve_collision(b) with velocities (-1, 0) and (+1, 0).
C1_HeadOnExchange ==
    (Called /\ HeadOnPair(pre)) =>
        /\ particles[1].v_x = R(-1) /\ particles[1].v_y = R(0)
        /\ particles[2].v_x = R(1) /\ particles[2].v_y = R(0)

\* C2: a.resolve_collision(b) on an overlapping pair with distinct centres
\* whose centre distance is increasing leaves all four velocity components
\* unchanged.
C2_NoOpOnSeparation ==
    (Called /\ Overlapping(pre) /\ DistinctCentres(pre)
       /\ RLt(R(0), SeparationRate(pre))) =>
        SameVelocities(particles, pre)

\* C8: m_a*v_a + m_b*v_b is the same vector before and after
\* a.resolve_collision(b), whichever path the call takes.
C8_MomentumConserved ==
    Called => Momentum(particles) = Momentum(pre)

\* an impulse was applied to a pair of unequal masses off the axes
C8_Witness ==
    /\ Called
    /\ pre[1].m # pre[2].m
    /\ particles[1].v_x # pre[1].v_x
    /\ particles[1].v_y # pre[1].v_y
    /\ particles[2].v_x # pre[2].v_x

(***************************************************************************)
(* Properties of move (MoveSpec).                                          *)
(***************************************************************************)
Contained(p) ==
    /\ RLe(p.r, p.x) /\ RLe(p.x, RSub(R(SCREEN_WIDTH), p.r))
    /\ RLe(p.r, p.y) /\ RLe(p.y, RSub(R(SCREEN_HEIGHT), p.r))
FitsDomain(p) ==
    /\ RLe(RMul(R(2), p.r), R(SCREEN_WIDTH))
    /\ RLe(RMul(R(2), p.r), R(SCREEN_HEIGHT))

\* C5: after every call of move on a particle with 2r <= SCREEN_WIDTH and
\* 2r <= SCREEN_HEIGHT, r <= x <= SCREEN_WIDTH - r and
\* r <= y <= SCREEN_HEIGHT - r, whatever the position and velocity before.
C5_WallContainment ==
    (call = "move" /\ FitsDomain(particles[1])) => Contained(particles[1])

\* a particle that started outside the domain has been moved more than
\* once, the last call bouncing it off the right wall
C5_Witness ==
    /\ call = "move"
    /\ t > 1
    /\ particles[1].r = R(1)
    /\ pre[1].v_x = R(250)
    /\ particles[1].v_x = R(-250)
    /\ particles[1].x = R(SCREEN_WIDTH - 1)
    /\ particles[1].y = R(1)

(***************************************************************************)
(* Properties of the grid (GridSpec).                                      *)
(***************************************************************************)
\* the cell a particle was bucketed in
cell_of(g, i) ==
    g[CHOOSE k \in 1..Len(g) :
        \E j \in 1..Len(g[k].members) : g[k].members[j] = i].cell
Adjacent(c1, c2) == Abs(c1[1] - c2[1]) <= 1 /\ Abs(c1[2] - c2[2]) <= 1
Scanned(g, a, b) ==
    \E k \in 1..Len(candidates(g)) : candidates(g)[k] = <<a, b>>

\* C7: when GRID_SIZE is at least every particle's diameter, two particles
\* whose centre distance at build time is less than the sum of their radii
\* are bucketed in cells that differ by at most 1 on each axis, and the
\* 3x3 scan reaches the pair.
C7_GridCompleteness ==
    (/\ call = "build_grid"
     /\ \A i \in 1..2 : RLe(RMul(R(2), particles[i].r), R(GRID_SIZE))
     /\ check_collision(particles[1], particles[2])) =>
        /\ Adjacent(cell_of(grid, 1), cell_of(grid, 2))
        /\ Scanned(grid, 1, 2)
        /\ Scanned(grid, 2, 1)

\* an overlapping pair of diameter GRID_SIZE in diagonally adjacent cells
C7_Witness ==
    /\ call = "build_grid"
    /\ particles[1].r = R(5) /\ particles[2].r = R(5)
    /\ check_collision(particles[1], particles[2])
    /\ cell_of(grid, 1)[1] - cell_of(grid, 2)[1] = 1
    /\ cell_of(grid, 2)[2] - cell_of(grid, 1)[2] = 1

(***************************************************************************)
(* Properties of the running program (Spec).                               *)
(***************************************************************************)
\* the particle list the collision pass of the current tick will leave
AfterPass ==
    collision_pass(candidates(IF sim_pc = "collide" THEN grid
                              ELSE build_grid(particles, 1, <<>>)), 1,
                   [ps |-> particles, visited |-> {}, checked |-> <<>>]).ps

\* the simulation thread has moved a particle in the current tick and has
\* yet to change another
SimMidTick ==
    /\ lock = "sim"
    /\ sim_pc \in {"move", "collide"}
    /\ sim_i > 1
    /\ \/ sim_pc = "move" /\ sim_i <= Len(particles)
       \/ sim_i > Len(particles) /\ AfterPass # particles

\* C3: no read of particle state by get_speeds or by the drawing loop
\* happens between the first and the last particle mutation of a tick.
C3_NoReadInsideTick ==
    [][(SpeedsWrite \/ MainDraw) => ~SimMidTick]_vars

\* C4: with no particles the simulation thread passes every reporting tick
\* and goes on to the next tick.
C4_ZeroParticleRunContinues ==
    Len(particles) = 0 => sim_pc # "crashed"

PassDone == sim_pc = "report"
TimesChecked(a, b) ==
    Cardinality({k \in 1..Len(checked) :
                   \/ checked[k].a = a /\ checked[k].b = b
                   \/ checked[k].a = b /\ checked[k].b = a})

\* C6: in one collision pass check_collision is called at most once on
\* every unordered pair of distinct particles, and exactly once when the
\* cells the two were bucketed in are equal or Moore-adjacent.
C6_PairDedup ==
    PassDone =>
        \A a \in 1..Len(particles) : \A b \in 1..Len(particles) :
            a # b =>
                /\ TimesChecked(a, b) <= 1
                /\ Adjacent(cell_of(grid, a), cell_of(grid, b))
                       => TimesChecked(a, b) = 1

\* a pass that resolved a collision and pushed a particle out of the cell
\* it was bucketed in, into a cell next to a particle it was not checked
\* against
C6_Witness ==
    /\ PassDone
    /\ \E k \in 1..Len(checked) : checked[k].hit
    /\ \E a \in 1..Len(particles) : \E b \in 1..Len(particles) :
         /\ get_cell(particles[a].x, particles[a].y) # cell_of(grid, a)
         /\ ~Adjacent(cell_of(grid, a), cell_of(grid, b))
         /\ Adjacent(get_cell(particles[a].x, particles[a].y),
                     get_cell(particles[b].x, particles[b].y))
         /\ TimesChecked(a, b) = 0

\* C9: each iteration of the integration loop adds 2*m*|old v_x| to
\* total_momentum_transfer exactly when move bounced on the x axis, and
\* 2*m*|old v_y| exactly when it bounced on the y axis, and adds the number
\* of axes that bounced to bounces.
C9_WallMomentumPerAxis ==
    last_move.i # 0 =>
        /\ last_move.d_momentum =
             RAdd(IF last_move.bounced_x
                  THEN RMul(RMul(R(2), last_move.m), RAbs(last_move.old_vx))
                  ELSE R(0),
                  IF last_move.bounced_y
                  THEN RMul(RMul(R(2), last_move.m), RAbs(last_move.old_vy))
                  ELSE R(0))
        /\ last_move.d_bounces =
             (IF last_move.bounced_x THEN 1 ELSE 0)
             + (IF last_move.bounced_y THEN 1 ELSE 0)

\* C10: bounces and total_momentum_transfer are zero after every step that
\* brings t to a multiple of SIMULATION_RATE, and neither decreases in any
\* other step.
C10_ResetAtInterval ==
    [][/\ (t' # t /\ t' % SIMULATION_RATE = 0) =>
             bounces' = 0 /\ total_momentum_transfer' = R(0)
       /\ (bounces' < bounces
           \/ RLt(total_momentum_transfer', total_momentum_transfer)) =>
             (t' # t /\ t' % SIMULATION_RATE = 0)]_vars

\* the second report has reset accumulators that were not zero
C10_Witness ==
    /\ last_report.t = 2 * SIMULATION_RATE
    /\ last_report.bounces > 0
    /\ RLt(R(0), last_report.pressure)
    /\ bounces = 0
    /\ total_momentum_transfer = R(0)

====
